---------------------------- MODULE Spec2Model ----------------------------
(***************************************************************************)
(* The BluCollarBookings payment gateway: an Express server whose handlers *)
(* translate HTTP requests into calls on the Stripe client and on one      *)
(* Firebase Realtime Database path per company                             *)
(*   users/companies/<companyUUID>/companySettings/stripeAccountId         *)
(* (the "directory").                                                      *)
(*                                                                         *)
(* Two server files are modelled, selected by `build`:                     *)
(*   "part_001"  src/unnamed/part_001 (create-or-reuse onboarding, account *)
(*               routing in the payment intent, account status query)      *)
(*   "server.js" src/server.js (onboarding always creates an account, the  *)
(*               payment intent never reads the directory)                 *)
(*                                                                         *)
(* A handler is an async function: it runs without interruption up to an   *)
(* `await`, and resumes when the awaited call completes.  One action is    *)
(* one such segment: the completion of the pending external call (with the *)
(* call's effect on the directory or the processor) followed by the code   *)
(* up to the next `await` or to the end of the handler.  Handlers of       *)
(* different requests interleave at the awaits.  An external call either   *)
(* succeeds or rejects with an error message; a rejected call has had no   *)
(* effect on the directory or the processor.                               *)
(***************************************************************************)
EXTENDS Integers, Sequences, FiniteSets, TLC

\* Number of requests the server receives in one behaviour.
MaxReq == 2

\* snapshot.val() of a path that holds nothing, and `let stripeAccountId = null`.
NULL == 0

Reqs == 1..MaxReq

Builds == {"part_001", "server.js"}

\* companyUUID values a client sends; "" stands for a missing (falsy) one.
Companies == {"co_1", "co_2"}

NoCompany == ""

\* err.message of a rejected external call.
Msgs == {"ECONNRESET"}

\* The outcome of an external call: it resolves, or rejects with a message.
Outcomes == {"ok"} \cup Msgs

\* paymentIntent.status values the processor answers with.
IntentStatuses == {"succeeded", "requires_action"}

VARIABLES
    build,      \* which server file runs
    requests,   \* per request: its handler's position, locals, calls made, responses sent
    directory,  \* Firebase: companyUUID -> stored stripeAccountId, or NULL
    accounts    \* Stripe: the connected accounts created, each with the company it was created for

vars == <<build, requests, directory, accounts>>

----------------------------------------------------------------------------
\* Request bodies: the set of non-company fields that are present (truthy),
\* and the companyUUID.

PayRequired == {"amount", "currency", "customerId", "paymentMethodId"}

Body(present, companyUUID) == [present |-> present, companyUUID |-> companyUUID]

PayBodies ==
    { Body(p, c) : p \in {PayRequired} \cup { PayRequired \ {f} : f \in PayRequired },
                   c \in Companies \cup {NoCompany} }

CustomerBodies == { Body(p, NoCompany) : p \in {{"email"}, {}} }

SetupBodies == { Body(p, NoCompany) : p \in {{"customerId"}, {}} }

ConnectBodies == { Body({}, c) : c \in Companies \cup {NoCompany} }

\* A request slot before its request has arrived.
Idle ==
    [kind |-> "", body |-> Body({}, NoCompany), pc |-> "idle",
     stripeAccountId |-> NULL, calls |-> <<>>, resp |-> <<>>]

\* Requests arrive in the order of their slots.
CanReceive(r) ==
    /\ requests[r].pc = "idle"
    /\ \A s \in Reqs : s < r => requests[s].pc # "idle"

\* The handler is suspended at `await <op>(...)`.
Await(q, op) == [q EXCEPT !.pc = op]

\* res.status(status).json({error}) / res.json(...) / res.send(...)
Respond(q, status, error) ==
    [q EXCEPT !.resp = Append(@, [status |-> status, error |-> error])]

\* The handler returns (or runs off its end).
Return(q) == [q EXCEPT !.pc = "done"]

\* The record of a completed external call.
Called(q, op, company, account, out, ret) ==
    [q EXCEPT !.calls = Append(@,
        [op |-> op, company |-> company, account |-> account,
         ok |-> (out = "ok"),
         ret |-> IF out = "ok" THEN ret ELSE NULL,
         err |-> IF out = "ok" THEN "" ELSE out])]

\* Variant: the catch block answers with a fixed text instead of err.message.
CatchGeneric(q, message) == Return(Respond(q, 500, "Internal Server Error"))

\* catch (err) { res.status(500).json({ error: err.message }); }
Catch(q, message) == Return(Respond(q, 500, message))

\* db.ref(`users/companies/${companyUUID}/companySettings/stripeAccountId`).once("value") ... .val()
DirGet(companyUUID) ==
    IF companyUUID \in DOMAIN directory THEN directory[companyUUID] ELSE NULL

\* Variant: the update is applied at the parent path, to every company.
DirUpdateAllCompanies(companyUUID, stripeAccountId) ==
    [c \in DOMAIN directory |-> stripeAccountId]

\* db.ref(`users/companies/${companyUUID}/companySettings`).update({ stripeAccountId })
DirUpdate(companyUUID, stripeAccountId) ==
    [directory EXCEPT ![companyUUID] = stripeAccountId]

\* account.id of the account stripe.accounts.create returns to request r: a
\* fresh id the processor issues (named after the request that asked for it).
NewAccountId(r) == r

----------------------------------------------------------------------------
(* GET /healthz, GET /stripe/connect/success, GET /stripe/connect/refresh   *)

Healthz(r) ==
    /\ CanReceive(r)
    /\ requests' = [requests EXCEPT ![r] =
           Return(Respond([Idle EXCEPT !.kind = "GET /healthz"], 200, ""))]
    /\ UNCHANGED <<build, directory, accounts>>

ConnectSuccess(r, companyUUID) ==
    /\ CanReceive(r)
    /\ requests' = [requests EXCEPT ![r] =
           Return(Respond([Idle EXCEPT !.kind = "GET /stripe/connect/success",
                                       !.body = Body({}, companyUUID)], 200, ""))]
    /\ UNCHANGED <<build, directory, accounts>>

ConnectRefresh(r) ==
    /\ CanReceive(r)
    /\ requests' = [requests EXCEPT ![r] =
           Return(Respond([Idle EXCEPT !.kind = "GET /stripe/connect/refresh"], 200, ""))]
    /\ UNCHANGED <<build, directory, accounts>>

----------------------------------------------------------------------------
(* POST /create-payment-intent                                              *)

\* Variant: only amount and currency are checked.
PayValidAmountCurrency(body) == {"amount", "currency"} \subseteq body.present

\* if (!amount || !currency || !customerId || !paymentMethodId)
PayValid(body) == PayRequired \subseteq body.present

\* Variant: the lookup is made whether or not a companyUUID was sent.
PayLooksUpAlways(companyUUID) == TRUE

\* if (companyUUID) { ... lookup ... }
PayLooksUp(companyUUID) == companyUUID # NoCompany

\* Variant: transfer_data is never attached.
TransferDestinationNone(stripeAccountId) == NULL

\* if (stripeAccountId) { paymentIntentData.transfer_data = { destination: stripeAccountId } }
\* NULL stands for a paymentIntentData without transfer_data.
TransferDestination(stripeAccountId) ==
    IF stripeAccountId # NULL THEN stripeAccountId ELSE NULL

PayReceive(r, body) ==
    /\ build = "part_001"
    /\ CanReceive(r)
    /\ LET q == [Idle EXCEPT !.kind = "POST /create-payment-intent", !.body = body]
       IN  requests' = [requests EXCEPT ![r] =
               IF ~PayValid(body)
               THEN Return(Respond(q, 400, "Missing parameters"))
               ELSE IF PayLooksUp(body.companyUUID)
                    THEN Await(q, "db.get")
                    ELSE Await(q, "paymentIntents.create")]
    /\ UNCHANGED <<build, directory, accounts>>

\* server.js: companyUUID is not read from the body, no lookup exists.
PayReceiveServerJs(r, body) ==
    /\ build = "server.js"
    /\ CanReceive(r)
    /\ LET q == [Idle EXCEPT !.kind = "POST /create-payment-intent", !.body = body]
       IN  requests' = [requests EXCEPT ![r] =
               IF ~PayValid(body)
               THEN Return(Respond(q, 400, "Missing parameters"))
               ELSE Await(q, "paymentIntents.create")]
    /\ UNCHANGED <<build, directory, accounts>>

PayRead(r, out) ==
    /\ requests[r].kind = "POST /create-payment-intent"
    /\ requests[r].pc = "db.get"
    /\ LET q   == requests[r]
           val == DirGet(q.body.companyUUID)
           q1  == Called(q, "db.get", q.body.companyUUID, NULL, out, val)
       IN  requests' = [requests EXCEPT ![r] =
               IF out = "ok"
               THEN Await([q1 EXCEPT !.stripeAccountId = val], "paymentIntents.create")
               ELSE Catch(q1, out)]
    /\ UNCHANGED <<build, directory, accounts>>

PayCreate(r, out, status) ==
    /\ requests[r].kind = "POST /create-payment-intent"
    /\ requests[r].pc = "paymentIntents.create"
    /\ LET q  == requests[r]
           q1 == Called(q, "paymentIntents.create", NoCompany,
                        TransferDestination(q.stripeAccountId), out, NULL)
       IN  requests' = [requests EXCEPT ![r] =
               IF out # "ok"
               THEN Catch(q1, out)
               ELSE IF status = "succeeded"
                    THEN Return(Respond(q1, 200, ""))
                    ELSE Return(Respond(q1, 200, ""))]
    /\ UNCHANGED <<build, directory, accounts>>

----------------------------------------------------------------------------
(* POST /create-stripe-customer, GET /customer/:id/payment-methods,         *)
(* POST /create-setup-intent                                                *)

CustomerValid(body) == "email" \in body.present

SetupValid(body) == "customerId" \in body.present

CustomerReceive(r, body) ==
    /\ CanReceive(r)
    /\ LET q == [Idle EXCEPT !.kind = "POST /create-stripe-customer", !.body = body]
       IN  requests' = [requests EXCEPT ![r] =
               IF ~CustomerValid(body)
               THEN Return(Respond(q, 400, "Missing email"))
               ELSE Await(q, "customers.create")]
    /\ UNCHANGED <<build, directory, accounts>>

CustomerCreate(r, out) ==
    /\ requests[r].pc = "customers.create"
    /\ LET q1 == Called(requests[r], "customers.create", NoCompany, NULL, out, NULL)
       IN  requests' = [requests EXCEPT ![r] =
               IF out = "ok" THEN Return(Respond(q1, 200, "")) ELSE Catch(q1, out)]
    /\ UNCHANGED <<build, directory, accounts>>

\* The route parameter :id of a matched route is never empty.
MethodsReceive(r) ==
    /\ CanReceive(r)
    /\ LET q == [Idle EXCEPT !.kind = "GET /customer/:id/payment-methods",
                             !.body = Body({"id"}, NoCompany)]
       IN  requests' = [requests EXCEPT ![r] =
               IF "id" \notin q.body.present
               THEN Return(Respond(q, 400, "Missing customer ID"))
               ELSE Await(q, "paymentMethods.list")]
    /\ UNCHANGED <<build, directory, accounts>>

MethodsList(r, out) ==
    /\ requests[r].pc = "paymentMethods.list"
    /\ LET q1 == Called(requests[r], "paymentMethods.list", NoCompany, NULL, out, NULL)
       IN  requests' = [requests EXCEPT ![r] =
               IF out = "ok" THEN Return(Respond(q1, 200, "")) ELSE Catch(q1, out)]
    /\ UNCHANGED <<build, directory, accounts>>

SetupReceive(r, body) ==
    /\ CanReceive(r)
    /\ LET q == [Idle EXCEPT !.kind = "POST /create-setup-intent", !.body = body]
       IN  requests' = [requests EXCEPT ![r] =
               IF ~SetupValid(body)
               THEN Return(Respond(q, 400, "Missing customer ID"))
               ELSE Await(q, "setupIntents.create")]
    /\ UNCHANGED <<build, directory, accounts>>

SetupCreate(r, out) ==
    /\ requests[r].pc = "setupIntents.create"
    /\ LET q1 == Called(requests[r], "setupIntents.create", NoCompany, NULL, out, NULL)
       IN  requests' = [requests EXCEPT ![r] =
               IF out = "ok" THEN Return(Respond(q1, 200, "")) ELSE Catch(q1, out)]
    /\ UNCHANGED <<build, directory, accounts>>

----------------------------------------------------------------------------
(* POST /stripe/connect                                                     *)

\* if (!companyUUID)
ConnectValid(body) == body.companyUUID # NoCompany

\* Variant: an account is created whatever the directory holds.
NeedsAccountAlways(stripeAccountId) == TRUE

\* if (!stripeAccountId) { ... create ... }
NeedsAccount(stripeAccountId) == stripeAccountId = NULL

ConnectReceive(r, body) ==
    /\ build = "part_001"
    /\ CanReceive(r)
    /\ LET q == [Idle EXCEPT !.kind = "POST /stripe/connect", !.body = body]
       IN  requests' = [requests EXCEPT ![r] =
               IF ~ConnectValid(body)
               THEN Return(Respond(q, 400, "Missing company UUID"))
               ELSE Await(q, "db.get")]
    /\ UNCHANGED <<build, directory, accounts>>

\* server.js: no lookup, the handler goes straight to stripe.accounts.create.
ConnectReceiveServerJs(r, body) ==
    /\ build = "server.js"
    /\ CanReceive(r)
    /\ LET q == [Idle EXCEPT !.kind = "POST /stripe/connect", !.body = body]
       IN  requests' = [requests EXCEPT ![r] =
               IF ~ConnectValid(body)
               THEN Return(Respond(q, 400, "Missing company UUID"))
               ELSE Await(q, "accounts.create")]
    /\ UNCHANGED <<build, directory, accounts>>

ConnectRead(r, out) ==
    /\ requests[r].kind = "POST /stripe/connect"
    /\ requests[r].pc = "db.get"
    /\ LET q   == requests[r]
           val == DirGet(q.body.companyUUID)
           q1  == Called(q, "db.get", q.body.companyUUID, NULL, out, val)
       IN  requests' = [requests EXCEPT ![r] =
               IF out # "ok"
               THEN Catch(q1, out)
               ELSE IF NeedsAccount(val)
                    THEN Await([q1 EXCEPT !.stripeAccountId = val], "accounts.create")
                    ELSE Await([q1 EXCEPT !.stripeAccountId = val], "accountLinks.create")]
    /\ UNCHANGED <<build, directory, accounts>>

\* Variant: the created id is not saved; the handler goes on to the link.
ConnectAccountCreateNoSave(r, out) ==
    /\ requests[r].pc = "accounts.create"
    /\ LET q  == requests[r]
           id == NewAccountId(r)
           q1 == Called(q, "accounts.create", NoCompany, NULL, out, id)
       IN  IF out = "ok"
           THEN /\ accounts' = accounts \cup {[id |-> id, company |-> q.body.companyUUID]}
                /\ requests' = [requests EXCEPT ![r] =
                       Await([q1 EXCEPT !.stripeAccountId = id], "accountLinks.create")]
           ELSE /\ accounts' = accounts
                /\ requests' = [requests EXCEPT ![r] = Catch(q1, out)]
    /\ UNCHANGED <<build, directory>>

ConnectAccountCreate(r, out) ==
    /\ requests[r].pc = "accounts.create"
    /\ LET q  == requests[r]
           id == NewAccountId(r)
           q1 == Called(q, "accounts.create", NoCompany, NULL, out, id)
       IN  IF out = "ok"
           THEN /\ accounts' = accounts \cup {[id |-> id, company |-> q.body.companyUUID]}
                /\ requests' = [requests EXCEPT ![r] =
                       Await([q1 EXCEPT !.stripeAccountId = id], "db.update")]
           ELSE /\ accounts' = accounts
                /\ requests' = [requests EXCEPT ![r] = Catch(q1, out)]
    /\ UNCHANGED <<build, directory>>

ConnectUpdate(r, out) ==
    /\ requests[r].pc = "db.update"
    /\ LET q  == requests[r]
           q1 == Called(q, "db.update", q.body.companyUUID, q.stripeAccountId, out, NULL)
       IN  IF out = "ok"
           THEN /\ directory' = DirUpdate(q.body.companyUUID, q.stripeAccountId)
                /\ requests' = [requests EXCEPT ![r] = Await(q1, "accountLinks.create")]
           ELSE /\ directory' = directory
                /\ requests' = [requests EXCEPT ![r] = Catch(q1, out)]
    /\ UNCHANGED <<build, accounts>>

ConnectLink(r, out) ==
    /\ requests[r].pc = "accountLinks.create"
    /\ LET q  == requests[r]
           q1 == Called(q, "accountLinks.create", q.body.companyUUID, q.stripeAccountId, out, NULL)
       IN  requests' = [requests EXCEPT ![r] =
               IF out = "ok" THEN Return(Respond(q1, 200, "")) ELSE Catch(q1, out)]
    /\ UNCHANGED <<build, directory, accounts>>

----------------------------------------------------------------------------
(* GET /stripe/account-status/:companyUUID  (part_001 only)                 *)

\* Variant: the 404 check is missing.
NotLinkedNever(stripeAccountId) == FALSE

\* if (!stripeAccountId) return res.status(404)...
NotLinked(stripeAccountId) == stripeAccountId = NULL

\* The route parameter :companyUUID of a matched route is never empty.
StatusReceive(r, companyUUID) ==
    /\ build = "part_001"
    /\ CanReceive(r)
    /\ LET q == [Idle EXCEPT !.kind = "GET /stripe/account-status/:companyUUID",
                             !.body = Body({}, companyUUID)]
       IN  requests' = [requests EXCEPT ![r] =
               IF companyUUID = NoCompany
               THEN Return(Respond(q, 400, "Missing company UUID"))
               ELSE Await(q, "db.get")]
    /\ UNCHANGED <<build, directory, accounts>>

StatusRead(r, out) ==
    /\ requests[r].kind = "GET /stripe/account-status/:companyUUID"
    /\ requests[r].pc = "db.get"
    /\ LET q   == requests[r]
           val == DirGet(q.body.companyUUID)
           q1  == Called(q, "db.get", q.body.companyUUID, NULL, out, val)
       IN  requests' = [requests EXCEPT ![r] =
               IF out # "ok"
               THEN Catch(q1, out)
               ELSE IF NotLinked(val)
                    THEN Return(Respond(q1, 404, "No Stripe account linked"))
                    ELSE Await([q1 EXCEPT !.stripeAccountId = val], "accounts.retrieve")]
    /\ UNCHANGED <<build, directory, accounts>>

StatusRetrieve(r, out) ==
    /\ requests[r].pc = "accounts.retrieve"
    /\ LET q  == requests[r]
           q1 == Called(q, "accounts.retrieve", NoCompany, q.stripeAccountId, out, NULL)
       IN  requests' = [requests EXCEPT ![r] =
               IF out = "ok" THEN Return(Respond(q1, 200, "")) ELSE Catch(q1, out)]
    /\ UNCHANGED <<build, directory, accounts>>

----------------------------------------------------------------------------
\* A fresh database and a processor without connected accounts.
Init ==
    /\ build \in Builds
    /\ requests = [r \in Reqs |-> Idle]
    /\ directory = [c \in Companies |-> NULL]
    /\ accounts = {}

\* A request arrives and its handler runs to its first await or to its end.
\* Handlers whose text is the same in both server files:
ReceiveShared(r) ==
    \/ Healthz(r)
    \/ \E c \in Companies : ConnectSuccess(r, c)
    \/ ConnectRefresh(r)
    \/ \E b \in CustomerBodies : CustomerReceive(r, b)
    \/ MethodsReceive(r)
    \/ \E b \in SetupBodies : SetupReceive(r, b)

\* Handlers of src/unnamed/part_001:
ReceivePart001(r) ==
    \/ \E b \in PayBodies : PayReceive(r, b)
    \/ \E b \in ConnectBodies : ConnectReceive(r, b)
    \/ \E c \in Companies : StatusReceive(r, c)

\* Handlers of src/server.js:
ReceiveServerJs(r) ==
    \/ \E b \in PayBodies : PayReceiveServerJs(r, b)
    \/ \E b \in ConnectBodies : ConnectReceiveServerJs(r, b)

Receive(r) == ReceiveShared(r) \/ ReceivePart001(r) \/ ReceiveServerJs(r)

\* The pending external call of a request completes with outcome `out`, and
\* the handler runs to its next await or to its end.
Resume(r, out) ==
    \/ PayRead(r, out)
    \/ \E s \in IntentStatuses : PayCreate(r, out, s)
    \/ CustomerCreate(r, out)
    \/ MethodsList(r, out)
    \/ SetupCreate(r, out)
    \/ ConnectRead(r, out)
    \/ ConnectAccountCreate(r, out)
    \/ ConnectUpdate(r, out)
    \/ ConnectLink(r, out)
    \/ StatusRead(r, out)
    \/ StatusRetrieve(r, out)

Next == \E r \in Reqs : Receive(r) \/ \E out \in Outcomes : Resume(r, out)

Spec == Init /\ [][Next]_vars

----------------------------------------------------------------------------
(* Sequential, failure-free use of src/unnamed/part_001: a request arrives  *)
(* only after every earlier request has been answered, and every external   *)
(* call succeeds.                                                           *)

InitSeq == Init /\ build = "part_001"

AllAnswered == \A s \in Reqs : requests[s].pc \in {"idle", "done"}

NextSeq ==
    \E r \in Reqs :
        \/ AllAnswered /\ (ReceiveShared(r) \/ ReceivePart001(r))
        \/ Resume(r, "ok")

SpecSeq == InitSeq /\ [][NextSeq]_vars

----------------------------------------------------------------------------
(* Vocabulary of the properties                                             *)

Connect == "POST /stripe/connect"

Pay == "POST /create-payment-intent"

Status == "GET /stripe/account-status/:companyUUID"

\* The calls of request r on operation op, as positions of its call record.
CallsOf(r, op) == { i \in 1..Len(requests[r].calls) : requests[r].calls[i].op = op }

\* The onboarding requests received so far for company c.
ConnectsFor(c) ==
    { r \in Reqs : requests[r].kind = Connect /\ requests[r].body.companyUUID = c }

\* The accounts created at the processor for company c.
AccountsFor(c) == { a \in accounts : a.company = c }

\* The directory, the processor, and a call that reaches either.
ExternalOps ==
    {"db.get", "db.update", "accounts.create", "accountLinks.create", "accounts.retrieve",
     "paymentIntents.create", "customers.create", "paymentMethods.list", "setupIntents.create"}

ProcessorOps == ExternalOps \ {"db.get", "db.update"}

\* Request r has been answered once, with this status and error text.
Answered(r, status, error) ==
    /\ requests[r].pc = "done"
    /\ requests[r].resp = <<[status |-> status, error |-> error]>>

\* The directory read of request r (its first call) returned val.
ReadReturned(r, val) ==
    /\ Len(requests[r].calls) >= 1
    /\ requests[r].calls[1].op = "db.get"
    /\ requests[r].calls[1].ok
    /\ requests[r].calls[1].ret = val

\* The directory read of request r returned a stored (non-empty) id.
ReadReturnedExisting(r) ==
    /\ Len(requests[r].calls) >= 1
    /\ requests[r].calls[1].op = "db.get"
    /\ requests[r].calls[1].ok
    /\ requests[r].calls[1].ret # NULL

----------------------------------------------------------------------------
\* C1: sequential idempotence of onboarding in src/unnamed/part_001.  When
\* requests run one after the other and every external call succeeds, then
\* for every company: the first onboarding request, once answered, has made
\* exactly one account-creation call and one directory write; every later
\* onboarding request for that company makes no account-creation call and no
\* directory write; the directory holds the id the first request created;
\* and every onboarding-link call of these requests names that same id.
C1_SequentialIdempotence ==
    \A c \in Companies :
        \A r1 \in ConnectsFor(c) :
            (\A s \in ConnectsFor(c) : r1 <= s) /\ requests[r1].pc = "done" =>
                /\ Answered(r1, 200, "")
                /\ Cardinality(CallsOf(r1, "accounts.create")) = 1
                /\ Cardinality(CallsOf(r1, "db.update")) = 1
                /\ Cardinality(AccountsFor(c)) = 1
                /\ \A a \in AccountsFor(c) :
                    /\ directory[c] = a.id
                    /\ \A r2 \in ConnectsFor(c) :
                        /\ r2 # r1 => CallsOf(r2, "accounts.create") = {}
                        /\ r2 # r1 => CallsOf(r2, "db.update") = {}
                        /\ \A i \in CallsOf(r2, "accountLinks.create") :
                               requests[r2].calls[i].account = a.id
                        /\ requests[r2].pc = "done" =>
                               /\ Answered(r2, 200, "")
                               /\ Cardinality(CallsOf(r2, "accountLinks.create")) = 1

\* Two onboarding requests for one company have both been answered.
C1_Witness ==
    \E c \in Companies : \E r1, r2 \in ConnectsFor(c) :
        /\ r1 < r2
        /\ Answered(r1, 200, "")
        /\ Answered(r2, 200, "")
        /\ CallsOf(r2, "accountLinks.create") # {}

\* C2: at most one connected account has been created at the processor for
\* each companyUUID, in every reachable state of src/unnamed/part_001.
C2_AtMostOneAccountPerCompany ==
    build = "part_001" => \A c \in Companies : Cardinality(AccountsFor(c)) <= 1

\* C3: once the directory holds a non-empty stripeAccountId for a company,
\* no later step changes the stored value.
C3_SetOnce ==
    [][\A c \in Companies : directory[c] # NULL => directory'[c] = directory[c]]_vars

\* C3, per server file (the same statement restricted to one build).
C3_SetOncePart001 ==
    [][build = "part_001" =>
        \A c \in Companies : directory[c] # NULL => directory'[c] = directory[c]]_vars

C3_SetOnceServerJs ==
    [][build = "server.js" =>
        \A c \in Companies : directory[c] # NULL => directory'[c] = directory[c]]_vars

\* C4: a payment-intent request that has amount, currency, customerId and
\* paymentMethodId and no companyUUID never reads the directory; it makes no
\* call before its processor call, and once answered it has made exactly one
\* call, paymentIntents.create without transfer_data.
C4_NoCompanyNoLookup ==
    \A r \in Reqs :
        /\ requests[r].kind = Pay
        /\ PayRequired \subseteq requests[r].body.present
        /\ requests[r].body.companyUUID = NoCompany
        => /\ CallsOf(r, "db.get") = {}
           /\ requests[r].pc \in {"paymentIntents.create", "done"}
           /\ requests[r].pc = "paymentIntents.create" => requests[r].calls = <<>>
           /\ requests[r].pc = "done" =>
                /\ Len(requests[r].calls) = 1
                /\ requests[r].calls[1].op = "paymentIntents.create"
                /\ requests[r].calls[1].account = NULL

\* Such a request has been charged.
C4_Witness ==
    \E r \in Reqs :
        /\ requests[r].kind = Pay
        /\ PayRequired \subseteq requests[r].body.present
        /\ requests[r].body.companyUUID = NoCompany
        /\ Answered(r, 200, "")
        /\ CallsOf(r, "paymentIntents.create") # {}

\* C5: in src/unnamed/part_001, a valid payment-intent request with a
\* companyUUID first reads the directory entry of that company; if the read
\* succeeds the processor call follows (the request is not rejected, whatever
\* was read), and that call carries a destination exactly when the read
\* returned a non-empty id, the destination being the id read.
C5_DestinationIsDirectoryValue ==
    \A r \in Reqs :
        /\ build = "part_001"
        /\ requests[r].kind = Pay
        /\ PayRequired \subseteq requests[r].body.present
        /\ requests[r].body.companyUUID # NoCompany
        => LET calls == requests[r].calls IN
           /\ requests[r].pc = "db.get" <=> calls = <<>>
           /\ Len(calls) >= 1 =>
                /\ calls[1].op = "db.get"
                /\ calls[1].company = requests[r].body.companyUUID
                /\ calls[1].ok =>
                     \/ requests[r].pc = "paymentIntents.create" /\ Len(calls) = 1
                     \/ requests[r].pc = "done" /\ Len(calls) = 2
           /\ Len(calls) >= 2 =>
                /\ Len(calls) = 2
                /\ calls[2].op = "paymentIntents.create"
                /\ (calls[2].account # NULL) <=> (calls[1].ret # NULL)
                /\ calls[1].ret # NULL => calls[2].account = calls[1].ret
                /\ calls[2].ok => Answered(r, 200, "")

\* A charge has been routed to the account the directory holds.
C5_Witness ==
    \E r \in Reqs :
        /\ build = "part_001"
        /\ requests[r].kind = Pay
        /\ Answered(r, 200, "")
        /\ Len(requests[r].calls) = 2
        /\ requests[r].calls[2].account # NULL
        /\ requests[r].calls[2].account = directory[requests[r].body.companyUUID]

\* A charge for a company without directory entry has gone through unsplit.
C5_WitnessAbsent ==
    \E r \in Reqs :
        /\ build = "part_001"
        /\ requests[r].kind = Pay
        /\ ReadReturned(r, NULL)
        /\ Answered(r, 200, "")
        /\ requests[r].calls[2].account = NULL

\* C6: an account-status request whose directory read returns no
\* stripeAccountId is answered 404 and makes no call to the processor.
C6_StatusNotFound ==
    \A r \in Reqs :
        requests[r].kind = Status /\ ReadReturned(r, NULL) =>
            /\ Answered(r, 404, "No Stripe account linked")
            /\ Len(requests[r].calls) = 1
            /\ \A op \in ProcessorOps : CallsOf(r, op) = {}

C6_Witness ==
    \E r \in Reqs :
        requests[r].kind = Status /\ ReadReturned(r, NULL) /\ requests[r].pc = "done"

----------------------------------------------------------------------------
\* The mutating endpoints, and a request to one that lacks a required field.
LacksRequired(q) ==
    \/ q.kind = Pay /\ \E f \in {"amount", "currency", "customerId", "paymentMethodId"} :
                           f \notin q.body.present
    \/ q.kind = "POST /create-stripe-customer" /\ "email" \notin q.body.present
    \/ q.kind = "POST /create-setup-intent" /\ "customerId" \notin q.body.present
    \/ q.kind = Connect /\ q.body.companyUUID = NoCompany

\* The error text of the 400 answer of each mutating endpoint.
MissingText(kind) ==
    CASE kind = Pay -> "Missing parameters"
      [] kind = "POST /create-stripe-customer" -> "Missing email"
      [] kind = "POST /create-setup-intent" -> "Missing customer ID"
      [] kind = Connect -> "Missing company UUID"
      [] OTHER -> ""

\* A request to a mutating endpoint that lacks a required field has been
\* answered 400 and has made no external call.
C7_Rejected ==
    \A r \in Reqs :
        LacksRequired(requests[r]) =>
            /\ Answered(r, 400, MissingText(requests[r].kind))
            /\ requests[r].calls = <<>>

\* The step that receives such a request leaves directory and processor as they were.
C7_ReceiveStep ==
    \A r \in Reqs :
        requests[r].pc = "idle" /\ LacksRequired(requests'[r]) =>
            directory' = directory /\ accounts' = accounts

\* C7: a request to a mutating endpoint (POST /create-payment-intent,
\* /create-stripe-customer, /create-setup-intent, /stripe/connect) that lacks a
\* required field is answered 400 in the step that receives it, makes no
\* external call then or later, and leaves directory and processor unchanged.
C7_MissingFieldsRejected == [](C7_Rejected) /\ [][C7_ReceiveStep]_vars

\* Each mutating endpoint has rejected a request, one of them a payment
\* intent that names a company.
C7_Witness ==
    /\ \E r \in Reqs : /\ requests[r].kind = Pay
                       /\ LacksRequired(requests[r])
                       /\ requests[r].body.companyUUID # NoCompany
                       /\ requests[r].pc = "done"
    /\ \E r \in Reqs : requests[r].kind = Connect /\ LacksRequired(requests[r])

\* C8: every request is answered at most once, and exactly once when its
\* handler has ended; a failed external call is the last call of its request
\* (no retry, no further call), ends the handler, and is answered with status
\* 500 and the failure's message.
C8_FailureIsOne500 ==
    \A r \in Reqs :
        LET q == requests[r] IN
        /\ Len(q.resp) <= 1
        /\ q.pc = "done" <=> Len(q.resp) = 1
        /\ q.pc \in {"idle", "done"} \cup ExternalOps
        /\ \A i \in 1..Len(q.calls) :
               /\ q.calls[i].op \in ExternalOps
               /\ ~q.calls[i].ok =>
                    /\ i = Len(q.calls)
                    /\ q.calls[i].err \in Msgs
                    /\ Answered(r, 500, q.calls[i].err)
        /\ (\E i \in 1..Len(q.resp) : q.resp[i].status = 500) =>
               Len(q.calls) >= 1 /\ ~q.calls[Len(q.calls)].ok

\* A request whose second external call failed has been answered.
C8_Witness ==
    \E r \in Reqs :
        /\ Len(requests[r].calls) >= 2
        /\ ~requests[r].calls[Len(requests[r].calls)].ok
        /\ requests[r].pc = "done"

C10_NoWriteUnlessAbsent ==
    \A r \in Reqs :
        (requests[r].kind # Connect \/ ReadReturnedExisting(r)) =>
            /\ CallsOf(r, "db.update") = {}
            /\ CallsOf(r, "accounts.create") = {}
            /\ requests[r].pc \notin {"db.update", "accounts.create"}

\* A step that changes the directory is the successful write of one onboarding
\* request whose own read returned absent, and changes that company's entry only.
C10_WriteStep ==
    directory' # directory =>
        \E r \in Reqs :
            /\ requests[r].kind = Connect
            /\ ReadReturned(r, NULL)
            /\ requests[r].pc = "db.update"
            /\ requests'[r].pc = "accountLinks.create"
            /\ \A s \in Reqs \ {r} : requests'[s] = requests[s]
            /\ \A c \in Companies \ {requests[r].body.companyUUID} :
                   directory'[c] = directory[c]

\* C10: in src/unnamed/part_001 the only step that modifies the directory is
\* the write of a POST /stripe/connect request whose own directory read
\* returned absent, and it changes only the entry of that request's company;
\* every other handler step leaves the directory unchanged, and an onboarding
\* request whose read returned an existing id makes no directory write and no
\* account-creation call.
C10_DirectoryFrame ==
    /\ [](build = "part_001" => C10_NoWriteUnlessAbsent)
    /\ [][build = "part_001" => C10_WriteStep]_vars

\* One onboarding request has written the directory entry of its company and
\* a second one, having read that id, has been answered without writing.
C10_Witness ==
    \E r1, r2 \in Reqs :
        /\ build = "part_001"
        /\ requests[r1].kind = Connect /\ requests[r2].kind = Connect
        /\ ReadReturned(r1, NULL)
        /\ CallsOf(r1, "db.update") # {}
        /\ ReadReturnedExisting(r2)
        /\ requests[r2].calls[1].ret = directory[requests[r2].body.companyUUID]
        /\ Answered(r2, 200, "")

=============================================================================
